---- MODULE Spec2Model ----
(***************************************************************************)
(* Model of convert_docx_to_excel_with_drive.py: a DOCX table is turned    *)
(* into spreadsheet rows, the photo column of each row being resolved to a *)
(* public Drive link (embedded image -> hyperlink + fetch -> cell text).   *)
(*                                                                         *)
(* Strings are sequences of chunks (a chunk is a character or an atomic    *)
(* piece of text), so that strip, join, lower and the f-string formatting  *)
(* are computed.  An Optional value is a sequence of length 0 (None) or 1. *)
(***************************************************************************)
EXTENDS Integers, Sequences, FiniteSets, TLC

\* ---- bounds of the model -------------------------------------------------
MaxTables == 2
MaxCols == 5
MaxRows == 2
MaxCalls == 3

\* ---- program constants ---------------------------------------------------
DRIVE_FOLDER_NAME == <<"DOCX Image Uploads">>
PHOTO_HEADER_CANDIDATES ==
  { <<"P","h","o","t","o">>, <<"I","m","a","g","e">>,
    <<"P","i","c","t","u","r","e">>,
    <<"P","h","o","t","o","g","r","a","p","h">> }
MinColumns == 3
RetryDelay == 2
FOLDER_MIME == <<"application/vnd.google-apps.folder">>
OCTET_STREAM == <<"application/octet-stream">>
VIEW_PREFIX == "https://drive.google.com/uc?export=view&id="

\* ---- Python values -------------------------------------------------------
None == <<>>
Some(v) == <<v>>
\* truth value of an Optional[str]: None and "" are falsy
TruthyStr(o) == o # None /\ o[1] # <<>>
\* truth value of an Optional[tuple]: a 2-tuple is truthy whatever it holds
TruthyTuple(o) == o # None

Whitespace == {" ", "\n", "\t"}

RECURSIVE lstrip(_)
lstrip(s) ==
  IF s # <<>> /\ Head(s) \in Whitespace THEN lstrip(Tail(s)) ELSE s

RECURSIVE rstrip(_)
rstrip(s) ==
  IF s # <<>> /\ s[Len(s)] \in Whitespace
    THEN rstrip(SubSeq(s, 1, Len(s) - 1)) ELSE s

\* str.strip()
strip(s) == rstrip(lstrip(s))

LowerChar(c) ==
  CASE c = "P" -> "p"
    [] c = "I" -> "i"
    [] c = "N" -> "n"
    [] c = "H" -> "h"
    [] OTHER -> c

\* str.lower()
lower(s) == [i \in 1..Len(s) |-> LowerChar(s[i])]

\* "\n".join(parts)
RECURSIVE join(_)
join(parts) ==
  IF parts = <<>> THEN <<>>
  ELSE IF Len(parts) = 1 THEN parts[1]
  ELSE parts[1] \o <<"\n">> \o join(Tail(parts))

Digits == <<"1", "2", "3", "4", "5", "6", "7", "8", "9">>
\* str(i) inside an f-string
FormatInt(i) == <<Digits[i]>>

\* int(x * 0.6) for a small non-negative integer x
IntTimes06(x) == (x * 6) \div 10

Max(a, b) == IF a >= b THEN a ELSE b

\* ---- DOCX helpers --------------------------------------------------------
\* cell_text(cell)
cell_text(cell) ==
  strip(join([i \in 1..Len(cell.paragraphs) |-> strip(cell.paragraphs[i])]))

\* re.search(r'HYPERLINK\s+"([^"]+)"', t): the leftmost match, group 1
ReMatchAt(t, i) ==
  /\ t[i] = "HYPERLINK"
  /\ \E j \in (i + 2)..Len(t) :
       /\ t[j] = "\""
       /\ \A k \in (i + 1)..(j - 1) : t[k] \in Whitespace
       /\ j + 1 <= Len(t) /\ t[j + 1] # "\""
       /\ \E e \in (j + 2)..Len(t) : t[e] = "\""

ReGroup(t, i) ==
  LET j == CHOOSE j \in (i + 2)..Len(t) :
             t[j] = "\"" /\ \A k \in (i + 1)..(j - 1) : t[k] \in Whitespace
      e == CHOOSE e \in (j + 2)..Len(t) :
             t[e] = "\"" /\ \A k \in (j + 1)..(e - 1) : t[k] # "\""
  IN SubSeq(t, j + 1, e - 1)

re_search_hyperlink(t) ==
  IF \E i \in 1..Len(t) : ReMatchAt(t, i)
    THEN LET i == CHOOSE i \in 1..Len(t) :
                    ReMatchAt(t, i) /\ \A k \in 1..(i - 1) : ~ReMatchAt(t, k)
         IN Some(ReGroup(t, i))
    ELSE None

\* first loop of first_hyperlink_url: w:hyperlink elements carrying an r:id
RECURSIVE DirectHyperlink(_, _)
DirectHyperlink(hs, rels) ==
  IF hs = <<>> THEN None
  ELSE IF Head(hs) \in 1..Len(rels) /\ rels[Head(hs)].is_external
    THEN Some(rels[Head(hs)].target_ref)
  ELSE DirectHyperlink(Tail(hs), rels)

\* second loop of first_hyperlink_url: w:instrText field codes
RECURSIVE FieldHyperlink(_)
FieldHyperlink(instrs) ==
  IF instrs = <<>> THEN None
  ELSE IF (\E i \in 1..Len(Head(instrs)) : Head(instrs)[i] = "HYPERLINK")
          /\ re_search_hyperlink(Head(instrs)) # None
    THEN re_search_hyperlink(Head(instrs))
  ELSE FieldHyperlink(Tail(instrs))

\* first_hyperlink_url(cell); rels is cell.part.rels
first_hyperlink_url(cell, rels) ==
  IF DirectHyperlink(cell.hyperlinks, rels) # None
    THEN DirectHyperlink(cell.hyperlinks, rels)
    ELSE FieldHyperlink(cell.instrText)

\* first_embedded_image_bytes(cell); rels is cell.part.rels, the
\* relationships of the whole document part, scanned in their order.  The
\* cell itself is never consulted.  Reading target_part of an external
\* relationship raises, and the bare except turns that into None.
RECURSIVE ScanRels(_)
ScanRels(rels) ==
  IF rels = <<>> THEN None
  ELSE IF Head(rels).is_external THEN None
  ELSE IF Head(rels).content_type[1] = "image/"
    THEN Some([blob |-> Head(rels).blob, mime |-> Head(rels).content_type])
  ELSE ScanRels(Tail(rels))

first_embedded_image_bytes(cell, rels) == ScanRels(rels)

\* ---- Google Drive helpers ------------------------------------------------
\* identifiers the storage service hands out, in the order it hands them out
DriveIds == <<"id1", "id2", "id3", "id4", "id5", "id6", "id7", "id8", "id9",
              "id10", "id11", "id12">>

\* service.files().list(q = name/mimeType query).execute()["files"]
files_list(files, name) ==
  LET Match(f) == f.name = name /\ f.mimeType = FOLDER_MIME
  IN SelectSeq(files, Match)

\* service.files().create(body, media_body).execute()
files_create(files, next, name, mimeType, parents, data) ==
  [files |-> Append(files, [id |-> DriveIds[next], name |-> name,
                            mimeType |-> mimeType, parents |-> parents,
                            data |-> data, public |-> FALSE]),
   next |-> next + 1,
   id |-> DriveIds[next]]

\* find_or_create_folder(service, name); listOk / createOk are the outcomes
\* of the two requests
find_or_create_folder(files, next, name, listOk, createOk) ==
  IF listOk /\ files_list(files, name) # <<>>
    THEN [ok |-> TRUE, id |-> files_list(files, name)[1].id,
          files |-> files, next |-> next]
  ELSE IF createOk
    THEN LET c == files_create(files, next, name, FOLDER_MIME, <<>>, <<>>)
         IN [ok |-> TRUE, id |-> c.id, files |-> c.files, next |-> c.next]
  ELSE [ok |-> FALSE, id |-> "", files |-> files, next |-> next]

\* statuses on which set_public_anyone_reader retries
RetryStatuses == {403, 429, 500, 503}
\* outcome of one permissions().create call: 200 is success, 0 is an error
\* that is not an HttpError, any other number is the HttpError's status
OK == 200
NotHttp == 0

\* variant: the retry is made after any failure of the first call
set_public_anyone_reader_any_error(p1, p2) ==
  IF p1 = OK THEN [ok |-> TRUE, calls |-> <<p1>>, slept |-> 0]
  ELSE [ok |-> (p2 = OK), calls |-> <<p1, p2>>, slept |-> RetryDelay]

\* set_public_anyone_reader(service, file_id); p1 and p2 are the outcomes of
\* the first call and of the retry
set_public_anyone_reader(p1, p2) ==
  IF p1 = OK THEN [ok |-> TRUE, calls |-> <<p1>>, slept |-> 0]
  ELSE IF p1 # NotHttp /\ p1 \in RetryStatuses
    THEN [ok |-> (p2 = OK), calls |-> <<p1, p2>>, slept |-> RetryDelay]
  ELSE [ok |-> FALSE, calls |-> <<p1>>, slept |-> 0]

Event(op, status, arg, out) ==
  [op |-> op, status |-> status, arg |-> arg, out |-> out]

PermEvents(calls) ==
  [i \in 1..Len(calls) |-> Event("permissions.create", calls[i], <<>>, <<>>)]

MarkPublic(files, id) ==
  [i \in 1..Len(files) |->
     IF files[i].id = id THEN [files[i] EXCEPT !.public = TRUE] ELSE files[i]]

\* variant: a failure of the upload is swallowed and reported as "no link"
upload_image_bytes_swallow(files, next, fid, name_hint, data, mime, createOk, p1, p2) ==
  LET m == IF TruthyStr(mime) THEN mime[1] ELSE OCTET_STREAM
      arg == [name |-> name_hint, parents |-> <<fid>>, data |-> data,
              mime |-> m]
  IN IF ~createOk
       THEN [ok |-> TRUE, url |-> None, files |-> files, next |-> next,
             log |-> <<Event("files.create", NotHttp, arg, <<>>)>>]
       ELSE LET c == files_create(files, next, name_hint, m, <<fid>>, data)
                p == set_public_anyone_reader(p1, p2)
            IN [ok |-> TRUE,
                url |-> IF p.ok THEN Some(<<VIEW_PREFIX, c.id>>) ELSE None,
                files |-> IF p.ok THEN MarkPublic(c.files, c.id) ELSE c.files,
                next |-> c.next,
                log |-> <<Event("files.create", OK, arg, c.id)>>
                        \o PermEvents(p.calls)]

\* upload_image_bytes(service, folder_id, name_hint, data, mime)
upload_image_bytes(files, next, fid, name_hint, data, mime, createOk, p1, p2) ==
  LET m == IF TruthyStr(mime) THEN mime[1] ELSE OCTET_STREAM
      arg == [name |-> name_hint, parents |-> <<fid>>, data |-> data,
              mime |-> m]
  IN IF ~createOk
       THEN [ok |-> FALSE, url |-> None, files |-> files, next |-> next,
             log |-> <<Event("files.create", NotHttp, arg, <<>>)>>]
       ELSE LET c == files_create(files, next, name_hint, m, <<fid>>, data)
                p == set_public_anyone_reader(p1, p2)
            IN [ok |-> p.ok,
                url |-> IF p.ok THEN Some(<<VIEW_PREFIX, c.id>>) ELSE None,
                files |-> IF p.ok THEN MarkPublic(c.files, c.id) ELSE c.files,
                next |-> c.next,
                log |-> <<Event("files.create", OK, arg, c.id)>>
                        \o PermEvents(p.calls)]

\* ---- Main conversion: the pure part ---------------------------------------
\* lines 231-237: first table with at least 3 columns, else the first table
RECURSIVE FirstWide(_, _)
FirstWide(tables, i) ==
  IF i > Len(tables) THEN 0
  ELSE IF tables[i].columns >= MinColumns THEN i
  ELSE FirstWide(tables, i + 1)

\* variant: the loop has no break, the last wide table wins
RECURSIVE LastWide(_, _)
LastWide(tables, i) ==
  IF i < 1 THEN 0
  ELSE IF tables[i].columns >= MinColumns THEN i
  ELSE LastWide(tables, i - 1)

select_table_last_wide(tables) ==
  IF LastWide(tables, Len(tables)) # 0 THEN LastWide(tables, Len(tables))
  ELSE 1

select_table(tables) ==
  IF FirstWide(tables, 1) # 0 THEN FirstWide(tables, 1) ELSE 1

\* line 241
first_row_headers(table) ==
  [i \in 1..Len(table.rows[1].cells) |-> cell_text(table.rows[1].cells[i])]

\* variant: the comparison is strict
is_header_like_strict(hs) ==
  Cardinality({i \in 1..Len(hs) : strip(hs[i]) # <<>>})
    > Max(1, IntTimes06(Len(hs)))

\* line 244
is_header_like(hs) ==
  Cardinality({i \in 1..Len(hs) : strip(hs[i]) # <<>>})
    >= Max(1, IntTimes06(Len(hs)))

\* line 249
generic_headers(table) ==
  [i \in 1..Len(table.rows[1].cells) |-> <<"Column", " ">> \o FormatInt(i)]

\* lines 253-257; the index is 0-based and NoIdx stands for None
NoIdx == 0 - 1
RECURSIVE find_photo_idx(_, _, _)
find_photo_idx(hs, cands, i) ==
  IF i >= Len(hs) THEN NoIdx
  ELSE IF lower(strip(hs[i + 1])) \in {lower(c) : c \in cands} THEN i
  ELSE find_photo_idx(hs, cands, i + 1)

\* lines 299-301: the dict of one output row (a later duplicate key wins)
row_dict_of(hs, values) ==
  LET Key(i) == IF hs[i] # <<>> THEN hs[i]
                ELSE <<"Column", " ">> \o FormatInt(i)
  IN [k \in {Key(i) : i \in 1..Len(hs)} |->
        LET last == CHOOSE i \in 1..Len(hs) :
                      Key(i) = k /\ \A j \in (i + 1)..Len(hs) : Key(j) # k
        IN IF last <= Len(values) THEN values[last] ELSE <<>>]

\* ---- Main conversion: one data row ----------------------------------------
\* line 270
has_photo_cell(idx, row) == idx # NoIdx /\ idx < Len(row.cells)

\* line 276
image_found(embedded) == TruthyTuple(embedded)

\* variant: state 2 is entered whatever state 1 produced
enter_hyperlink_state_always(public_link) == TRUE

\* line 282
enter_hyperlink_state(public_link) == ~TruthyStr(public_link)

\* variant: a fetch that returned no bytes counts as failed
fetch_succeeded_nonempty(fetched) ==
  fetched # None /\ fetched[1].data # <<>>

\* line 286
fetch_succeeded(fetched) == TruthyTuple(fetched)

\* lines 278 and 288
name_hint(r, suffix) == <<"row">> \o FormatInt(r) \o <<suffix>>

\* URLs whose host cannot be reached
URL_REL == <<"http://a.example/p.png">>
UnreachableUrls == {URL_REL}

\* download_url_bytes(url); outcome is what the request yields when the host
\* can be reached: None for a failed request, else (data, mime)
download_url_bytes(url, outcome) ==
  IF url \in UnreachableUrls THEN None ELSE outcome

\* lines 274-279: state 1, the embedded image
embedded_state(cell, rels, files, next, fid, r, createOk, p1, p2) ==
  LET embedded == first_embedded_image_bytes(cell, rels)
      ev == Event("first_embedded_image_bytes", OK, <<>>, embedded)
  IN IF image_found(embedded)
       THEN LET up == upload_image_bytes(files, next, fid,
                        name_hint(r, "_photo"), embedded[1].blob,
                        Some(embedded[1].mime), createOk, p1, p2)
            IN [raised |-> ~up.ok, link |-> up.url, files |-> up.files,
                next |-> up.next, log |-> <<ev>> \o up.log]
       ELSE [raised |-> FALSE, link |-> None, files |-> files,
             next |-> next, log |-> <<ev>>]

\* lines 281-292: state 2, the hyperlink; s is the outcome of state 1 and
\* fetched the outcome of download_url_bytes
hyperlink_state(s, cell, rels, fid, r, outcome, createOk, p1, p2) ==
  LET url == first_hyperlink_url(cell, rels)
      fetched == IF TruthyStr(url) THEN download_url_bytes(url[1], outcome)
                 ELSE None
      ev == Event("first_hyperlink_url", OK, <<>>, url)
      dl == Event("download_url_bytes", OK, url, fetched)
  IN IF ~TruthyStr(url)
       THEN [s EXCEPT !.log = s.log \o <<ev>>]
     ELSE IF fetch_succeeded(fetched)
       THEN LET up == upload_image_bytes(s.files, s.next, fid,
                        name_hint(r, "_photo_from_link"), fetched[1].data,
                        fetched[1].mime, createOk, p1, p2)
            IN [raised |-> ~up.ok, link |-> up.url, files |-> up.files,
                next |-> up.next, log |-> s.log \o <<ev, dl>> \o up.log]
     ELSE [s EXCEPT !.link = url, !.log = s.log \o <<ev, dl>>]

\* variant: the hyperlink is tried before the embedded image
resolve_photo_link_first(cell, rels, files, next, fid, r, fetched, createOk, p1, p2) ==
  LET s0 == [raised |-> FALSE, link |-> None, files |-> files,
             next |-> next, log |-> <<>>]
      s2 == hyperlink_state(s0, cell, rels, fid, r, fetched, createOk, p1, p2)
      s1 == embedded_state(cell, rels, s2.files, s2.next, fid, r, createOk,
                           p1, p2)
  IN IF ~s2.raised /\ ~TruthyStr(s2.link)
       THEN [s1 EXCEPT !.log = s2.log \o s1.log]
       ELSE s2

\* lines 270-296: the photo cell of row r
resolve_photo(cell, rels, files, next, fid, r, fetched, createOk, p1, p2) ==
  LET s1 == embedded_state(cell, rels, files, next, fid, r, createOk, p1, p2)
  IN IF ~s1.raised /\ enter_hyperlink_state(s1.link)
       THEN hyperlink_state(s1, cell, rels, fid, r, fetched, createOk, p1, p2)
       ELSE s1

\* ---- state ---------------------------------------------------------------
VARIABLES
  doc,          \* the loaded document: its tables and its part's relationships
  drive_files,  \* the storage service: every file and folder it holds
  drive_next,   \* index of the next identifier the service hands out
  pc,           \* position of the run
  err,          \* the exception that ended the run, "" if none
  headers, header_like, data_rows, photo_idx, table_idx,
  folder_id,
  r_i,          \* 1-based position of the next data row
  rows_out,     \* the row dicts built so far
  values,       \* the values list of the row entered last
  log,          \* the calls made for the last row entered
  last_row,     \* position of the row log belongs to, 0 before the loop
  saved,        \* the spreadsheet written, None if none
  returned      \* results of successive find_or_create_folder calls

vars == <<doc, drive_files, drive_next, pc, err, headers, header_like,
          data_rows, photo_idx, table_idx, folder_id, r_i, rows_out, values,
          log, last_row, saved, returned>>

\* ---- inputs --------------------------------------------------------------
SeqsUpTo(S, lo, hi) == UNION {[1..k -> S] : k \in lo..hi}

PlainCell(text) ==
  [paragraphs |-> <<text>>, hyperlinks |-> <<>>, instrText |-> <<>>,
   blips |-> {}]

URL_REL2 == <<"http://b.example/q.jpg">>
URL_FIELD == <<VIEW_PREFIX, "id0">>
FieldCode(url) == <<"HYPERLINK", " ", "\"">> \o url \o <<"\"">>
BadFieldCode(url) == <<"HYPERLINK", " ">> \o url

ImageRel(blob) ==
  [is_external |-> FALSE, target_ref |-> <<"media/image.png">>,
   content_type |-> <<"image/", "png">>, blob |-> blob]
XmlRel ==
  [is_external |-> FALSE, target_ref |-> <<"styles.xml">>,
   content_type |-> <<"application/", "xml">>, blob |-> <<"<w:styles/>">>]
ExternalRel(url) ==
  [is_external |-> TRUE, target_ref |-> url, content_type |-> <<>>,
   blob |-> <<>>]
\* the relationships of the document part, in the order of the collection
RelsChoices ==
  { <<>>,
    <<ImageRel(<<"PNG">>)>>,
    <<ExternalRel(URL_REL)>>,
    <<XmlRel, ImageRel(<<>>)>>,
    <<ImageRel(<<"PNG">>), ExternalRel(URL_REL)>>,
    <<ExternalRel(URL_REL), ImageRel(<<"PNG">>)>> }

ImageRelIds(rels) ==
  {k \in 1..Len(rels) : ~rels[k].is_external
                         /\ rels[k].content_type[1] = "image/"}
ExternalRelIds(rels) == {k \in 1..Len(rels) : rels[k].is_external}

PhotoCell(h, f, b) ==
  [paragraphs |-> << <<" ", "t", " ">> >>, hyperlinks |-> h, instrText |-> f,
   blips |-> b]

\* the photo cells a document with relationships rels can hold: text only,
\* a picture, a w:hyperlink, a field-code hyperlink, a picture and a field
\* code
PhotoCells(rels) ==
  { PhotoCell(<<>>, <<>>, {}), PhotoCell(<<>>, <<FieldCode(URL_FIELD)>>, {}) }
  \cup { PhotoCell(<<>>, <<>>, {i}) : i \in ImageRelIds(rels) }
  \cup { PhotoCell(<<>>, <<FieldCode(URL_FIELD)>>, {i}) :
           i \in ImageRelIds(rels) }
  \cup { PhotoCell(<<i>>, <<>>, {}) : i \in ExternalRelIds(rels) }

T_NAME == <<"N", "a", "m", "e">>
T_PHOTO == <<" ", "P", "h", "o", "t", "o">>
T_NOTES == <<"Notes">>
T_BLANK == <<" ">>

\* family B: one 3-column table with a Photo header; the relationships and
\* the photo cells vary; a row may be shorter than the header
RowsB(rels) ==
  { [cells |-> <<PlainCell(<<"x">>)>>] }
  \cup { [cells |-> <<PlainCell(<<"x">>), c, PlainCell(<<"y">>)>>] :
           c \in PhotoCells(rels) }

DocB(rels, body) ==
  [tables |-> << [columns |-> 3,
                  rows |-> << [cells |-> <<PlainCell(T_NAME),
                                           PlainCell(T_PHOTO),
                                           PlainCell(T_NOTES)>>] >>
                           \o body] >>,
   rels |-> rels]

DocsB ==
  UNION { {DocB(rels, body) : body \in SeqsUpTo(RowsB(rels), 1, MaxRows)} :
          rels \in RelsChoices }

\* family A: up to MaxTables tables of 1..MaxCols columns; the first k cells
\* of the first row of each table are filled, the others blank, and the
\* photo column is named at position p (0: nowhere); one data row whose
\* cells all carry a field-code hyperlink
LinkCell ==
  [paragraphs |-> << <<"see">>, <<" ">> >>, hyperlinks |-> <<>>,
   instrText |-> <<BadFieldCode(URL_REL2), FieldCode(URL_FIELD)>>,
   blips |-> {}]

TableA(n, k, p) ==
  [columns |-> n,
   rows |-> << [cells |-> [i \in 1..n |->
                  IF i > k THEN PlainCell(T_BLANK)
                  ELSE IF i = p THEN PlainCell(T_PHOTO)
                  ELSE PlainCell(T_NAME)]],
               [cells |-> [i \in 1..n |-> LinkCell]] >>]

PhotoPositions == {0, 2}

DocsA ==
  { [tables |-> [i \in 1..Len(cols) |-> TableA(cols[i], k, p)],
     rels |-> <<>>] :
      cols \in SeqsUpTo(1..MaxCols, 0, MaxTables),
      k \in 0..MaxCols,
      p \in PhotoPositions }

ExistingFolder(id, name) ==
  [id |-> id, name |-> name, mimeType |-> FOLDER_MIME, parents |-> <<>>,
   data |-> <<>>, public |-> FALSE]

FetchOutcomes ==
  { None,
    Some([data |-> <<>>, mime |-> None]),
    Some([data |-> <<"JFIF">>, mime |-> Some(<<"image/", "jpeg">>)]) }
PermOutcomes == {OK, 403, 429, 500, 503, 400, 404, NotHttp}
RetryOutcomes == {OK, 503, NotHttp}
FetchedImage == Some([data |-> <<"JFIF">>, mime |-> Some(<<"image/", "jpeg">>)])

\* the outcomes of the external calls of one row: every fetch outcome with a
\* storage that works, and every storage outcome with a fetch that works
Scenarios ==
  { [fetched |-> f, createOk |-> TRUE, p1 |-> OK, p2 |-> OK] :
      f \in FetchOutcomes }
  \cup { [fetched |-> FetchedImage, createOk |-> FALSE, p1 |-> OK, p2 |-> OK] }
  \cup { [fetched |-> FetchedImage, createOk |-> TRUE, p1 |-> a, p2 |-> b] :
          a \in PermOutcomes, b \in RetryOutcomes }

\* ---- the run -------------------------------------------------------------
InitRun(d, store, at) ==
  /\ doc = d
  /\ drive_files = store
  /\ drive_next = Len(store) + 1
  /\ pc = at
  /\ err = ""
  /\ headers = <<>>
  /\ header_like = FALSE
  /\ data_rows = <<>>
  /\ photo_idx = NoIdx
  /\ table_idx = 0
  /\ folder_id = ""
  /\ r_i = 1
  /\ rows_out = <<>>
  /\ values = <<>>
  /\ log = <<>>
  /\ last_row = 0
  /\ saved = None
  /\ returned = <<>>

Init ==
  \/ \E d \in DocsA : InitRun(d, <<>>, "start")
  \/ \E d \in DocsB :
       InitRun(d, <<ExistingFolder(DriveIds[1], DRIVE_FOLDER_NAME)>>, "start")

Raise(e) == pc' = "error" /\ err' = e

\* lines 226-257: load the document, choose the table, build the headers
LoadAndSelect ==
  /\ pc = "start"
  /\ IF doc.tables = <<>>
       THEN /\ Raise("ValueError")
            /\ UNCHANGED <<headers, header_like, data_rows, photo_idx,
                           table_idx>>
       ELSE LET t == select_table(doc.tables)
                table == doc.tables[t]
                hs == first_row_headers(table)
                hl == is_header_like(hs)
                hs2 == IF hl THEN hs ELSE generic_headers(table)
            IN /\ table_idx' = t
               /\ header_like' = hl
               /\ headers' = hs2
               /\ data_rows' = IF hl THEN Tail(table.rows) ELSE table.rows
               /\ photo_idx' = find_photo_idx(hs2, PHOTO_HEADER_CANDIDATES, 0)
               /\ pc' = "auth"
               /\ err' = err
  /\ UNCHANGED <<doc, drive_files, drive_next, folder_id, r_i, rows_out,
                 values, log, last_row, saved, returned>>

\* line 260: get_drive_service() returns a client or raises
GetDriveService ==
  /\ pc = "auth"
  /\ \E ok \in BOOLEAN :
       IF ok THEN pc' = "folder" /\ err' = err ELSE Raise("AuthError")
  /\ UNCHANGED <<doc, drive_files, drive_next, headers, header_like,
                 data_rows, photo_idx, table_idx, folder_id, r_i, rows_out,
                 values, log, last_row, saved, returned>>

\* line 261
PrepareFolder ==
  /\ pc = "folder"
  /\ \E listOk \in BOOLEAN, createOk \in BOOLEAN :
       LET f == find_or_create_folder(drive_files, drive_next,
                                      DRIVE_FOLDER_NAME, listOk, createOk)
       IN /\ drive_files' = f.files
          /\ drive_next' = f.next
          /\ IF f.ok THEN /\ folder_id' = f.id
                          /\ pc' = "rows"
                          /\ err' = err
                     ELSE /\ Raise("HttpError")
                          /\ folder_id' = folder_id
  /\ UNCHANGED <<doc, headers, header_like, data_rows, photo_idx, table_idx,
                 r_i, rows_out, values, log, last_row, saved, returned>>

\* lines 264-267: enter the next data row and read the text of its cells
BeginRow ==
  /\ pc = "rows"
  /\ r_i <= Len(data_rows)
  /\ values' = [i \in 1..Len(data_rows[r_i].cells) |->
                  cell_text(data_rows[r_i].cells[i])]
  /\ log' = <<>>
  /\ last_row' = r_i
  /\ pc' = "row"
  /\ UNCHANGED <<doc, drive_files, drive_next, err, headers, header_like,
                 data_rows, photo_idx, table_idx, folder_id, r_i, rows_out,
                 saved, returned>>

\* lines 269-302: resolve the photo cell of the row and pack the row dict
ResolveRow ==
  /\ pc = "row"
  /\ LET row == data_rows[r_i]
     IN IF has_photo_cell(photo_idx, row)
          THEN \E x \in Scenarios :
                 LET s == resolve_photo(row.cells[photo_idx + 1], doc.rels,
                                        drive_files, drive_next, folder_id,
                                        r_i, x.fetched, x.createOk, x.p1,
                                        x.p2)
                     vals2 == IF TruthyStr(s.link)
                                THEN [values EXCEPT ![photo_idx + 1] = s.link[1]]
                                ELSE values
                 IN /\ drive_files' = s.files
                    /\ drive_next' = s.next
                    /\ log' = s.log
                    /\ IF s.raised
                         THEN /\ Raise("HttpError")
                              /\ UNCHANGED <<r_i, rows_out, values>>
                         ELSE /\ values' = vals2
                              /\ rows_out' = Append(rows_out,
                                               row_dict_of(headers, vals2))
                              /\ r_i' = r_i + 1
                              /\ pc' = "rows"
                              /\ err' = err
          ELSE /\ rows_out' = Append(rows_out, row_dict_of(headers, values))
               /\ r_i' = r_i + 1
               /\ pc' = "rows"
               /\ UNCHANGED <<err, values, log, drive_files, drive_next>>
  /\ UNCHANGED <<doc, headers, header_like, data_rows, photo_idx, table_idx,
                 folder_id, last_row, saved, returned>>

\* lines 305-306: write the spreadsheet
SaveExcel ==
  /\ pc = "rows"
  /\ r_i > Len(data_rows)
  /\ \E ok \in BOOLEAN :
       IF ok THEN /\ saved' = Some([columns |-> headers, rows |-> rows_out])
                  /\ pc' = "done"
                  /\ err' = err
             ELSE /\ Raise("IOError")
                  /\ saved' = saved
  /\ UNCHANGED <<doc, drive_files, drive_next, headers, header_like,
                 data_rows, photo_idx, table_idx, folder_id, r_i, rows_out,
                 values, log, last_row, returned>>

Next == LoadAndSelect \/ GetDriveService \/ PrepareFolder \/ BeginRow
        \/ ResolveRow \/ SaveExcel

Spec == Init /\ [][Next]_vars

\* ---- repeated folder resolution against one storage ----------------------
OTHER_NAME == <<"Other">>
FolderStores ==
  { <<>>,
    <<ExistingFolder(DriveIds[1], DRIVE_FOLDER_NAME)>>,
    <<ExistingFolder(DriveIds[1], OTHER_NAME)>>,
    <<[ExistingFolder(DriveIds[1], DRIVE_FOLDER_NAME)
         EXCEPT !.mimeType = <<"image/", "png">>]>>,
    <<ExistingFolder(DriveIds[1], OTHER_NAME),
      ExistingFolder(DriveIds[2], DRIVE_FOLDER_NAME)>> }

InitFolder ==
  \E store \in FolderStores :
    InitRun([tables |-> <<>>, rels |-> <<>>], store, "folder_calls")

\* one more call find_or_create_folder(service, DRIVE_FOLDER_NAME); the
\* result is recorded (None for a call that raised) with whether the call
\* created a folder
FolderCall ==
  /\ pc = "folder_calls"
  /\ Len(returned) < MaxCalls
  /\ \E listOk \in BOOLEAN, createOk \in BOOLEAN :
       LET f == find_or_create_folder(drive_files, drive_next,
                                      DRIVE_FOLDER_NAME, listOk, createOk)
       IN /\ drive_files' = f.files
          /\ drive_next' = f.next
          /\ returned' = Append(returned,
                                 [id |-> IF f.ok THEN Some(f.id) ELSE None,
                                  created |-> f.next > drive_next])
  /\ UNCHANGED <<doc, pc, err, headers, header_like, data_rows, photo_idx,
                 table_idx, folder_id, r_i, rows_out, values, log, last_row,
                 saved>>

NextFolder == FolderCall

SpecFolder == InitFolder /\ [][NextFolder]_vars

\* ---- observations on a state ----------------------------------------------
\* the row the log belongs to
RowEntered == last_row >= 1 /\ pc \in {"row", "rows", "done", "error"}
CurRow == data_rows[last_row]
RowHasPhotoCell ==
  RowEntered /\ photo_idx >= 0 /\ photo_idx < Len(CurRow.cells)
CurPhotoCell == CurRow.cells[photo_idx + 1]
\* the row went through lines 269-302 without raising
RowCompleted == RowEntered /\ r_i = last_row + 1
\* the row raised
RowFailed == RowEntered /\ r_i = last_row /\ pc = "error"
PhotoValue == values[photo_idx + 1]

Calls(op) == LET Is(e) == e.op = op IN SelectSeq(log, Is)
NCalls(op) == Len(Calls(op))
ViewUrl(id) == <<VIEW_PREFIX, id>>

\* what the cell itself holds, read off the document
CellHasPicture(cell) == cell.blips # {}
CellHasHyperlink(cell) ==
  \/ \E i \in 1..Len(cell.hyperlinks) :
       /\ cell.hyperlinks[i] \in 1..Len(doc.rels)
       /\ doc.rels[cell.hyperlinks[i]].is_external
  \/ \E i \in 1..Len(cell.instrText) :
       re_search_hyperlink(cell.instrText[i]) # None

\* ---- C1 --------------------------------------------------------------------
\* C1: whenever first_embedded_image_bytes yielded an image for the photo
\* cell of a row, first_hyperlink_url and download_url_bytes are not called
\* for that row, the image's bytes are the one upload of the row, and once
\* the row is completed its photo value is the view URL of the object that
\* upload created.
C1_EmbeddedPreferred ==
  (RowHasPhotoCell
   /\ NCalls("first_embedded_image_bytes") >= 1
   /\ Calls("first_embedded_image_bytes")[1].out # None)
  => /\ NCalls("first_hyperlink_url") = 0
     /\ NCalls("download_url_bytes") = 0
     /\ NCalls("files.create") = 1
     /\ Calls("files.create")[1].arg.data
          = Calls("first_embedded_image_bytes")[1].out[1].blob
     /\ RowCompleted
          => PhotoValue = ViewUrl(Calls("files.create")[1].out)

\* a completed row whose photo cell holds a picture and a hyperlink
C1_Witness ==
  /\ RowHasPhotoCell /\ RowCompleted
  /\ NCalls("first_embedded_image_bytes") = 1
  /\ Calls("first_embedded_image_bytes")[1].out # None
  /\ CellHasPicture(CurPhotoCell)
  /\ CellHasHyperlink(CurPhotoCell)

\* ---- C2 --------------------------------------------------------------------
\* C2: for every photo cell with a hyperlink to an unreachable target, in
\* any document, no upload is made for the row and the photo value of the
\* completed row is the hyperlink URL.
C2_UnreachableKeepsUrl ==
  (RowHasPhotoCell
   /\ first_hyperlink_url(CurPhotoCell, doc.rels) # None
   /\ first_hyperlink_url(CurPhotoCell, doc.rels)[1] \in UnreachableUrls)
  => /\ NCalls("files.create") = 0
     /\ RowCompleted
          => PhotoValue = first_hyperlink_url(CurPhotoCell, doc.rels)[1]

\* ---- C3 --------------------------------------------------------------------
\* C3: for every photo cell holding neither a picture nor a hyperlink, in
\* any document, no fetch and no upload is made for the row and the photo
\* value of the completed row is the trimmed text of the cell.
C3_PlainTextPassthrough ==
  (RowHasPhotoCell
   /\ ~CellHasPicture(CurPhotoCell) /\ ~CellHasHyperlink(CurPhotoCell))
  => /\ NCalls("files.create") = 0
     /\ NCalls("download_url_bytes") = 0
     /\ RowCompleted => PhotoValue = cell_text(CurPhotoCell)

\* ---- C4 --------------------------------------------------------------------
\* C4: whenever download_url_bytes returned data for the hyperlink of a
\* photo cell (no image having been extracted), the fetched bytes are the
\* one upload of the row and the photo value of the completed row is the
\* view URL of the created object, not the hyperlink URL.
C4_FetchedIsRehosted ==
  (RowHasPhotoCell
   /\ NCalls("download_url_bytes") >= 1
   /\ Calls("download_url_bytes")[1].out # None)
  => /\ Calls("first_embedded_image_bytes")[1].out = None
     /\ NCalls("files.create") = 1
     /\ Calls("files.create")[1].arg.data
          = Calls("download_url_bytes")[1].out[1].data
     /\ RowCompleted
          => /\ PhotoValue = ViewUrl(Calls("files.create")[1].out)
             /\ PhotoValue # Calls("download_url_bytes")[1].arg[1]

\* a completed row whose fetch returned empty bytes and no media type
C4_Witness ==
  /\ RowHasPhotoCell /\ RowCompleted
  /\ NCalls("download_url_bytes") = 1
  /\ Calls("download_url_bytes")[1].out # None
  /\ Calls("download_url_bytes")[1].out[1].data = <<>>
  /\ Calls("download_url_bytes")[1].out[1].mime = None
  /\ Calls("files.create")[1].arg.mime = OCTET_STREAM

\* ---- C5 --------------------------------------------------------------------
Selected == pc \in {"auth", "folder", "rows", "row", "done"}
FirstRowCells == doc.tables[table_idx].rows[1].cells
\* number of cells of the first row holding something other than white space
NonEmptyCount ==
  Cardinality({i \in 1..Len(FirstRowCells) :
     \E q \in 1..Len(FirstRowCells[i].paragraphs) :
       \E c \in 1..Len(FirstRowCells[i].paragraphs[q]) :
         FirstRowCells[i].paragraphs[q][c] \notin Whitespace})
HeaderTaken ==
  /\ header_like
  /\ data_rows = Tail(doc.tables[table_idx].rows)
  /\ Len(headers) = Len(FirstRowCells)
SyntheticHeaders ==
  /\ ~header_like
  /\ data_rows = doc.tables[table_idx].rows
  /\ headers = [i \in 1..Len(FirstRowCells) |-> <<"Column", " ", Digits[i]>>]
\* the largest m with 10 * m <= 6 * n
Floor60(n) == CHOOSE m \in 0..n : 10 * m <= 6 * n /\ 10 * (m + 1) > 6 * n
HeaderThreshold(n) == IF Floor60(n) >= 1 THEN Floor60(n) ELSE 1

\* C5 as stated: a first row with at least 60% of its cells non-empty is the
\* header and rows 1..N are the data; a first row with fewer than 60%
\* non-empty gets the names "Column 1".."Column n" and is itself a data row.
C5_SixtyPercentExact ==
  Selected =>
    /\ 10 * NonEmptyCount >= 6 * Len(FirstRowCells) => HeaderTaken
    /\ 10 * NonEmptyCount < 6 * Len(FirstRowCells) => SyntheticHeaders

\* C5 as amended: the threshold is max(1, floor(0.6 * n)) non-empty cells;
\* at or above it (so whenever at least 60% are non-empty) the first row is
\* the header, below it the headers are synthetic and row 0 is a data row.
C5_FlooredThreshold ==
  Selected =>
    /\ 10 * NonEmptyCount >= 6 * Len(FirstRowCells) => HeaderTaken
    /\ NonEmptyCount >= HeaderThreshold(Len(FirstRowCells)) => HeaderTaken
    /\ NonEmptyCount < HeaderThreshold(Len(FirstRowCells)) => SyntheticHeaders

\* a first row under 60% that is nevertheless taken as the header
C5_Witness ==
  /\ Selected
  /\ 10 * NonEmptyCount < 6 * Len(FirstRowCells)
  /\ HeaderTaken

\* ---- C6 --------------------------------------------------------------------
\* C6: after any sequence of find_or_create_folder calls with one name
\* against one storage, list failures included, all the calls that returned
\* returned the same id and at most one call created a folder.
C6_FolderIdempotent ==
  /\ \A i, j \in 1..Len(returned) :
       (returned[i].id # None /\ returned[j].id # None)
         => returned[i].id = returned[j].id
  /\ Cardinality({i \in 1..Len(returned) : returned[i].created}) <= 1

\* ---- C7 --------------------------------------------------------------------
PermStatus(i) == Calls("permissions.create")[i].status

\* C7: permissions.create is called at most twice for an upload; after a
\* success there is no second call; after a 403, 429, 500 or 503 there is
\* exactly one more call, whose failure ends the run; after any other
\* failure there is no second call and the run ends.
C7_RetryOnce ==
  (RowEntered /\ NCalls("permissions.create") >= 1)
  => /\ NCalls("permissions.create") <= 2
     /\ PermStatus(1) = 200 => NCalls("permissions.create") = 1 /\ ~RowFailed
     /\ PermStatus(1) \in {403, 429, 500, 503}
          => /\ NCalls("permissions.create") = 2
             /\ PermStatus(2) # 200 => RowFailed /\ err = "HttpError"
             /\ PermStatus(2) = 200 => ~RowFailed
     /\ PermStatus(1) \notin {200, 403, 429, 500, 503}
          => /\ NCalls("permissions.create") = 1
             /\ RowFailed /\ err = "HttpError"

\* a retry that failed as well
C7_Witness ==
  /\ RowEntered
  /\ NCalls("permissions.create") = 2
  /\ PermStatus(1) = 429
  /\ PermStatus(2) = 503
  /\ RowFailed

\* ---- C8 --------------------------------------------------------------------
Cols(i) == doc.tables[i].columns

\* C8: the selected table is the first one in document order with at least
\* 3 columns, the first table when there is none; of a 2-column and a
\* 5-column table the 5-column one is selected in either order.
C8_FirstWideTable ==
  Selected =>
    /\ table_idx \in 1..Len(doc.tables)
    /\ (\E i \in 1..Len(doc.tables) : Cols(i) >= 3)
         => Cols(table_idx) >= 3 /\ \A j \in 1..(table_idx - 1) : Cols(j) < 3
    /\ (\A i \in 1..Len(doc.tables) : Cols(i) < 3) => table_idx = 1
    /\ (Len(doc.tables) = 2 /\ {Cols(1), Cols(2)} = {2, 5})
         => Cols(table_idx) = 5

\* a 2-column table followed by a 5-column one
C8_Witness ==
  /\ Selected
  /\ Len(doc.tables) = 2 /\ Cols(1) = 2 /\ Cols(2) = 5
  /\ table_idx = 2

\* ---- C9 --------------------------------------------------------------------
Uploads ==
  {i \in 1..Len(drive_files) : drive_files[i].mimeType # FOLDER_MIME}

\* C9: a row causes at most one files.create, one fetch, one call of each
\* extractor and two permissions.create; a row without a photo cell causes
\* no call at all; only the photo value of a row differs from the text of
\* its cell; the storage holds at most one upload per row entered.
C9_AtMostOncePerRow ==
  /\ Cardinality(Uploads) <= last_row
  /\ RowEntered =>
       /\ NCalls("files.create") <= 1
       /\ NCalls("download_url_bytes") <= 1
       /\ NCalls("first_embedded_image_bytes") <= 1
       /\ NCalls("first_hyperlink_url") <= 1
       /\ NCalls("permissions.create") <= 2
       /\ ~RowHasPhotoCell => log = <<>>
       /\ \A i \in 1..Len(values) :
            (i # photo_idx + 1) => values[i] = cell_text(CurRow.cells[i])

\* the second row of a run completed with an upload whose permission step
\* was retried, after a first row with an upload of its own
C9_Witness ==
  /\ RowHasPhotoCell /\ RowCompleted
  /\ last_row = 2
  /\ Cardinality(Uploads) = 2
  /\ NCalls("files.create") = 1
  /\ NCalls("permissions.create") = 2

\* ---- C10 -------------------------------------------------------------------
UploadFailed ==
  \/ \E i \in 1..Len(log) : log[i].op = "files.create" /\ log[i].status # 200
  \/ /\ NCalls("permissions.create") >= 1
     /\ PermStatus(NCalls("permissions.create")) # 200

\* C10: once files.create, or the last permissions.create, has failed for a
\* row, the run has ended with that error: the failing call is the last
\* call of the row, the row is not in the output, no further step is taken
\* and no spreadsheet is written.
C10_UploadFailureIsFatal ==
  (RowEntered /\ UploadFailed)
  => /\ RowFailed /\ err = "HttpError"
     /\ log[Len(log)].op \in {"files.create", "permissions.create"}
     /\ log[Len(log)].status # 200
     /\ NCalls("files.create") = 1
     /\ Len(rows_out) = last_row - 1
     /\ saved = None
     /\ ~ENABLED Next

\* the embedded image of the first of two rows could not be uploaded, the
\* cell holding a hyperlink as well
C10_Witness ==
  /\ RowFailed /\ UploadFailed
  /\ last_row = 1 /\ Len(data_rows) = 2
  /\ Calls("first_embedded_image_bytes")[1].out # None
  /\ CellHasHyperlink(CurPhotoCell)

====
